---------------------------- MODULE Spec2Model ----------------------------
(***************************************************************************)
(* Model of unified_data_schema.py: the question catalogue UnifiedSchema,  *)
(* its four query methods and the two harmonization utilities.             *)
(*                                                                         *)
(* A Python dict is modelled as the sequence of its items in insertion     *)
(* order, each item a record [key, value] and no key occurring twice.  A   *)
(* Python list is a sequence.  Enum members are named by their values.     *)
(***************************************************************************)
EXTENDS Integers, Sequences, FiniteSets, TLC

VARIABLES
    core_questions,           \* self.core_questions
    demographic_questions,    \* self.demographic_questions
    supplementary_questions,  \* self.supplementary_questions
    historical_questions,     \* self.historical_questions
    history,                  \* the calls made so far on the instance, with what each returned
    hcall,                    \* one call of harmonize_response_scale: its arguments and its return value
    readers                   \* the concurrent readers: position, call and locals of each

vars == <<core_questions, demographic_questions, supplementary_questions,
          historical_questions, history, hcall, readers>>

catalogue == <<core_questions, demographic_questions, supplementary_questions,
               historical_questions>>

----------------------------------------------------------------------------
(* Python dict and list primitives used by the module.                     *)

Item(k, v) == [key |-> k, value |-> v]

Keys(d) == {d[i].key : i \in DOMAIN d}

\* d[k]
Lookup(d, k) == d[CHOOSE i \in DOMAIN d : d[i].key = k].value

\* d[k] = v: an existing key keeps its position, a new key goes last
SetItem(d, k, v) ==
    IF k \in Keys(d)
    THEN [i \in DOMAIN d |-> IF d[i].key = k THEN Item(k, v) ELSE d[i]]
    ELSE Append(d, Item(k, v))

\* a bug: d.setdefault(k, v), the first definition of a key is kept
SetItemKeepFirst(d, k, v) ==
    IF k \in Keys(d) THEN d ELSE Append(d, Item(k, v))

RECURSIVE UpdateKeepFirst(_, _)
UpdateKeepFirst(d, other) ==
    IF other = <<>> THEN d
    ELSE UpdateKeepFirst(SetItemKeepFirst(d, Head(other).key, Head(other).value), Tail(other))

\* d.update(other)
RECURSIVE Update(_, _)
Update(d, other) ==
    IF other = <<>> THEN d
    ELSE Update(SetItem(d, Head(other).key, Head(other).value), Tail(other))

\* x in list
Contains(list, x) == \E i \in DOMAIN list : list[i] = x

\* list.index(x), counted from 0 as Python does
Index(list, x) ==
    (CHOOSE i \in DOMAIN list : list[i] = x /\ \A j \in 1..(i - 1) : list[j] # x) - 1

\* dict equality of Python: same keys, equal values, whatever the order
DictEq(a, b) ==
    /\ Keys(a) = Keys(b)
    /\ \A k \in Keys(a) : Lookup(a, k) = Lookup(b, k)

Range(list) == {list[i] : i \in DOMAIN list}

IsDict(d) == \A i, j \in DOMAIN d : d[i].key = d[j].key => i = j

----------------------------------------------------------------------------
(* The data model.                                                         *)

QuestionMapping(question_id, question_text, question_type, response_scale, years_available, column_mappings, notes) ==
    [question_id |-> question_id,
     question_text |-> question_text,
     question_type |-> question_type,
     response_scale |-> response_scale,
     years_available |-> years_available,
     column_mappings |-> column_mappings,
     notes |-> notes]

AGREEMENT_5 ==
    <<"Strongly disagree", "Somewhat disagree", "Neutral", "Somewhat agree", "Strongly agree">>

AGREEMENT_5_ALT ==
    <<"Strongly disagree", "Somewhat disagree", "Neutral / No opinion", "Somewhat agree", "Strongly agree">>

FREQUENCY_4 ==
    <<"Never", "Rarely", "Sometimes", "Frequently">>

FREQUENCY_4_ALT ==
    <<"Never", "Rarely", "Often", "Always">>

YES_NO_UNSURE ==
    <<"Yes", "No", "Unsure">>

YES_NO_DONT_KNOW ==
    <<"Yes", "No", "Don't know">>

CREDIT_3 ==
    <<"No, too little credit", "Yes", "No, too much credit">>

FAMILIARITY_3 ==
    <<"I am familiar with the data principles", "I have previously heard of the data principles but I am not familiar with them", "I have never heard of the data principles before now">>

core_open_access_attitude ==
    QuestionMapping("open_access_attitude",
        "Making research articles open access should be common scholarly practice",
        "likert_5",
        AGREEMENT_5,
        <<2021, 2022, 2023, 2024>>,
        <<Item(2021, "Q2.7_1"), Item(2022, "Q2.11_1"), Item(2023, "Q2.10.a"), Item(2024, "Q12_1")>>,
        "Highest consistency across years - core trend indicator")

core_open_data_attitude ==
    QuestionMapping("open_data_attitude",
        "Making research data openly available should be common scholarly practice",
        "likert_5",
        AGREEMENT_5,
        <<2021, 2022, 2023, 2024>>,
        <<Item(2021, "Q2.7_2"), Item(2022, "Q2.11_2"), Item(2023, "Q2.10.b"), Item(2024, "Q12_2")>>,
        "Core data sharing attitude - primary outcome measure")

core_open_peer_review_attitude ==
    QuestionMapping("open_peer_review_attitude",
        "Making peer review open should be common scholarly practice",
        "likert_5",
        AGREEMENT_5,
        <<2022, 2023, 2024>>,
        <<Item(2022, "Q2.11_3"), Item(2023, "Q2.10.c"), Item(2024, "Q12_3")>>,
        "Introduced in 2022 - good trend indicator")

core_preprinting_attitude ==
    QuestionMapping("preprinting_attitude",
        "Preprinting should be common scholarly practice",
        "likert_5",
        AGREEMENT_5,
        <<2022, 2023, 2024>>,
        <<Item(2022, "Q2.11_4"), Item(2023, "Q2.10.d"), Item(2024, "Q12_4")>>,
        "Introduced in 2022 - tracks preprint adoption attitudes")

core_data_sharing_frequency ==
    QuestionMapping("data_sharing_frequency",
        "How often have you made your research data openly available?",
        "likert_4",
        FREQUENCY_4,
        <<2017>>,
        <<Item(2017, "Q2.2")>>,
        "Core behavioral measure - need to map similar questions in other years")

core_credit_for_sharing ==
    QuestionMapping("credit_for_sharing",
        "Do you think researchers currently get sufficient credit for sharing data?",
        "multiple_choice",
        CREDIT_3,
        <<2019, 2022>>,
        <<Item(2019, "Q2.4"), Item(2022, "Q3.2")>>,
        "Important motivational factor")

core_fair_principles_awareness ==
    QuestionMapping("fair_principles_awareness",
        "How familiar are you with FAIR data principles (Findable, Accessible, Interoperable, Reusable)?",
        "multiple_choice",
        FAMILIARITY_3,
        <<2022, 2023>>,
        <<Item(2022, "Q3.1_1"), Item(2023, "Q2.11.a")>>,
        "Key knowledge indicator for data management")

\* a bug: 2024 is added to the available years of a question and its column is not
core_fair_principles_awareness_unmapped_year ==
    QuestionMapping(core_fair_principles_awareness.question_id,
        core_fair_principles_awareness.question_text,
        core_fair_principles_awareness.question_type,
        core_fair_principles_awareness.response_scale,
        Append(core_fair_principles_awareness.years_available, 2024),
        core_fair_principles_awareness.column_mappings,
        core_fair_principles_awareness.notes)

define_core_questions_unmapped_year ==
    <<Item("open_access_attitude", core_open_access_attitude),
      Item("open_data_attitude", core_open_data_attitude),
      Item("open_peer_review_attitude", core_open_peer_review_attitude),
      Item("preprinting_attitude", core_preprinting_attitude),
      Item("data_sharing_frequency", core_data_sharing_frequency),
      Item("credit_for_sharing", core_credit_for_sharing),
      Item("fair_principles_awareness", core_fair_principles_awareness_unmapped_year)>>

define_core_questions ==
    <<Item("open_access_attitude", core_open_access_attitude),
      Item("open_data_attitude", core_open_data_attitude),
      Item("open_peer_review_attitude", core_open_peer_review_attitude),
      Item("preprinting_attitude", core_preprinting_attitude),
      Item("data_sharing_frequency", core_data_sharing_frequency),
      Item("credit_for_sharing", core_credit_for_sharing),
      Item("fair_principles_awareness", core_fair_principles_awareness)>>

demographic_job_title ==
    QuestionMapping("job_title",
        "Which of the following job titles best applies to you?",
        "multiple_choice",
        <<"Professor", "Associate Professor", "Research Scientist", "PhD Student", "Postdoc", "Other">>,
        <<2017, 2019, 2022, 2023, 2024>>,
        <<Item(2017, "Q10.5"), Item(2019, "Q6.5"), Item(2022, "Q2.6"), Item(2023, "Q2.6"), Item(2024, "Q7")>>,
        "Response categories vary by year but can be harmonized")

demographic_research_area ==
    QuestionMapping("research_area",
        "Which of the following best describes your primary area of interest?",
        "multiple_choice",
        <<"Medicine", "Engineering", "Physics", "Biology", "Other">>,
        <<2021, 2022, 2023, 2024>>,
        <<Item(2021, "Q2.4"), Item(2022, "Q2.7"), Item(2023, "Q2.7"), Item(2024, "Q8")>>,
        "Consistent categories with some variation")

demographic_publication_history ==
    QuestionMapping("publication_history",
        "When was the last occasion that you published or submitted a manuscript to a journal?",
        "multiple_choice",
        <<"Within the last year", "1-2 years ago", "3-5 years ago", "More than 5 years ago", "Never">>,
        <<2021, 2022, 2023, 2024>>,
        <<Item(2021, "Q2.1"), Item(2022, "Q2.3"), Item(2023, "Q2.1"), Item(2024, "Q4")>>,
        "Good indicator of research activity level")

demographic_organization_type ==
    QuestionMapping("organization_type",
        "Which type of organisation do you work in?",
        "multiple_choice",
        <<"University", "Research institution", "Medical school", "Private company", "Other">>,
        <<2022, 2023, 2024>>,
        <<Item(2022, "Q2.4"), Item(2023, "Q2.4"), Item(2024, "Q5")>>,
        "Institutional context indicator")

define_demographic_questions ==
    <<Item("job_title", demographic_job_title),
      Item("research_area", demographic_research_area),
      Item("publication_history", demographic_publication_history),
      Item("organization_type", demographic_organization_type)>>

supplementary_funder_mandate_support ==
    QuestionMapping("funder_mandate_support",
        "Should funders make the sharing of research data part of their requirements for awarding grants?",
        "likert_3",
        YES_NO_DONT_KNOW,
        <<2019>>,
        <<Item(2019, "Q2.2")>>,
        "Important policy question - 2019 focus")

supplementary_national_mandate_support ==
    QuestionMapping("national_mandate_support",
        "How supportive would you be of a national mandate for making primary research data openly available?",
        "likert_5",
        <<"Strongly oppose", "Somewhat oppose", "Neutral", "Somewhat support", "Strongly support">>,
        <<2019>>,
        <<Item(2019, "Q2.3")>>,
        "Policy attitude indicator")

supplementary_care_principles_awareness ==
    QuestionMapping("care_principles_awareness",
        "How familiar are you with CARE principles for Indigenous Data Governance?",
        "multiple_choice",
        FAMILIARITY_3,
        <<2022>>,
        <<Item(2022, "Q3.1_2")>>,
        "Ethical data governance awareness")

\* a bug: the category defines fair_principles_awareness again, an identifier of
\* the core category
supplementary_fair_principles_awareness ==
    QuestionMapping("fair_principles_awareness",
        supplementary_care_principles_awareness.question_text,
        supplementary_care_principles_awareness.question_type,
        supplementary_care_principles_awareness.response_scale,
        supplementary_care_principles_awareness.years_available,
        supplementary_care_principles_awareness.column_mappings,
        supplementary_care_principles_awareness.notes)

define_supplementary_questions_duplicate_id ==
    <<Item("funder_mandate_support", supplementary_funder_mandate_support),
      Item("national_mandate_support", supplementary_national_mandate_support),
      Item("fair_principles_awareness", supplementary_fair_principles_awareness)>>

define_supplementary_questions ==
    <<Item("funder_mandate_support", supplementary_funder_mandate_support),
      Item("national_mandate_support", supplementary_national_mandate_support),
      Item("care_principles_awareness", supplementary_care_principles_awareness)>>

historical_data_sharing_motivations ==
    QuestionMapping("data_sharing_motivations",
        "What circumstances would motivate you to share your data?",
        "multiple_select",
        <<"Institution requirement", "Funder requirement", "Transparency", "Credit", "Other">>,
        <<2017>>,
        <<Item(2017, "Q2.3_*")>>,
        "Comprehensive motivation analysis - 2017 baseline")

historical_data_sharing_effort ==
    QuestionMapping("data_sharing_effort",
        "How much effort is typically required to make your data re-usable by others?",
        "likert_4",
        <<"No effort", "Little effort", "Some effort", "A lot of effort">>,
        <<2017>>,
        <<Item(2017, "Q2.5")>>,
        "Barrier assessment - effort required")

historical_data_ownership_before_pub ==
    QuestionMapping("data_ownership_before_pub",
        "Who owns the data you produce during the course of your research before publication?",
        "multiple_select",
        <<"You", "Your institution", "Your funder", "Other">>,
        <<2017>>,
        <<Item(2017, "Q2.6_*")>>,
        "Ownership understanding - pre-publication")

historical_data_ownership_after_pub ==
    QuestionMapping("data_ownership_after_pub",
        "Who owns the data you produce during the course of your research after publication?",
        "multiple_select",
        <<"You", "Your institution", "Your funder", "Other">>,
        <<2017>>,
        <<Item(2017, "Q2.7_*")>>,
        "Ownership understanding - post-publication")

define_historical_questions ==
    <<Item("data_sharing_motivations", historical_data_sharing_motivations),
      Item("data_sharing_effort", historical_data_sharing_effort),
      Item("data_ownership_before_pub", historical_data_ownership_before_pub),
      Item("data_ownership_after_pub", historical_data_ownership_after_pub)>>

----------------------------------------------------------------------------
(* UnifiedSchema.                                                          *)

\* UnifiedSchema(): the instance right after __init__
UnifiedSchema ==
    [core_questions |-> define_core_questions,
     demographic_questions |-> define_demographic_questions,
     supplementary_questions |-> define_supplementary_questions,
     historical_questions |-> define_historical_questions]

\* the shared instance, as the state holds it
Self ==
    [core_questions |-> core_questions,
     demographic_questions |-> demographic_questions,
     supplementary_questions |-> supplementary_questions,
     historical_questions |-> historical_questions]

get_all_questions(self) ==
    LET all_0 == <<>>
        all_1 == Update(all_0, self.core_questions)
        all_2 == Update(all_1, self.demographic_questions)
        all_3 == Update(all_2, self.supplementary_questions)
        all_4 == Update(all_3, self.historical_questions)
    IN  all_4

\* a bug: the year is tested against the span first..last of the available years
YearFilterBySpan(items, year) ==
    LET Keep(it) ==
            /\ it.value.years_available # <<>>
            /\ it.value.years_available[1] <= year
            /\ year <= it.value.years_available[Len(it.value.years_available)]
    IN  SelectSeq(items, Keep)

\* {qid: q for qid, q in items if year in q.years_available}
YearFilter(items, year) ==
    LET Keep(it) == Contains(it.value.years_available, year)
    IN  SelectSeq(items, Keep)

\* a bug: > for >=
SpanFilterStrict(items, min_years) ==
    LET Keep(it) == Len(it.value.years_available) > min_years
    IN  SelectSeq(items, Keep)

\* {qid: q for qid, q in items if len(q.years_available) >= min_years}
SpanFilter(items, min_years) ==
    LET Keep(it) == Len(it.value.years_available) >= min_years
    IN  SelectSeq(items, Keep)

get_questions_by_year(self, year) ==
    YearFilter(get_all_questions(self), year)

DefaultMinYears == 2

get_longitudinal_questions(self, min_years) ==
    SpanFilter(get_all_questions(self), min_years)

CoreTrendMinYears == 3

\* a bug: the whole catalogue is filtered, not the core category
get_core_trend_questions_of_all(self) ==
    SpanFilter(get_all_questions(self), CoreTrendMinYears)

get_core_trend_questions(self) ==
    SpanFilter(self.core_questions, CoreTrendMinYears)

----------------------------------------------------------------------------
(* Harmonization utilities.                                                *)

\* a bug: a position past the end of the target is clipped to its last label
harmonize_response_scale_clipped(response, source_scale, target_scale) ==
    IF Contains(source_scale, response) /\ target_scale # <<>>
    THEN LET idx == Index(source_scale, response)
         IN  IF idx < Len(target_scale)
             THEN target_scale[idx + 1]
             ELSE target_scale[Len(target_scale)]
    ELSE response

harmonize_response_scale(response, source_scale, target_scale) ==
    IF Contains(source_scale, response)
    THEN LET idx == Index(source_scale, response)
         IN  IF idx < Len(target_scale)
             THEN target_scale[idx + 1]
             ELSE response
    ELSE response

\* for qid, question in items: mapping[qid] = question.column_mappings
RECURSIVE ProjectColumns(_, _)
ProjectColumns(mapping, items) ==
    IF items = <<>> THEN mapping
    ELSE ProjectColumns(
             SetItem(mapping, Head(items).key, Head(items).value.column_mappings),
             Tail(items))

\* a bug: only the core category is projected
create_harmonized_column_mapping_core_only ==
    ProjectColumns(<<>>, UnifiedSchema.core_questions)

create_harmonized_column_mapping ==
    LET schema == UnifiedSchema
    IN  ProjectColumns(<<>>, get_all_questions(schema))

----------------------------------------------------------------------------
(* The arguments the calls are made with.                                  *)

\* every year some question of the catalogue is available in
SurveyYears ==
    LET all == get_all_questions(UnifiedSchema)
    IN  UNION {Range(all[i].value.years_available) : i \in DOMAIN all}

FirstSurveyYear == CHOOSE y \in SurveyYears : \A z \in SurveyYears : y <= z

LastSurveyYear == CHOOSE y \in SurveyYears : \A z \in SurveyYears : z <= y

\* every survey year, the gap years 2018 and 2020, and a year on each side
YearArgs == (FirstSurveyYear - 1) .. (LastSurveyYear + 1)

\* the largest number of years any question of the catalogue has
MaxSpan ==
    LET all == get_all_questions(UnifiedSchema)
    IN  CHOOSE n \in 0..Len(all) + 8 :
            /\ \E i \in DOMAIN all : Len(all[i].value.years_available) = n
            /\ \A i \in DOMAIN all : Len(all[i].value.years_available) <= n

\* negative, zero, every span of the catalogue, and one past the largest
MinYearsArgs == (0 - 1) .. (MaxSpan + 1)

\* a call below the end of the target, and a call past it
HarmonizeArgs ==
    { <<"Rarely", FREQUENCY_4, AGREEMENT_5>>,
      <<"Strongly agree", AGREEMENT_5, FREQUENCY_4>> }

\* the arguments of the longer call sequences: a year with questions and one
\* without, a threshold that keeps everything and the one of the core trends
RepeatYearArgs == {LastSurveyYear, LastSurveyYear - 4}

RepeatMinYearsArgs == {0, CoreTrendMinYears}

\* how many calls a caller makes over the full argument ranges
MaxQueries == 2

\* how many calls a caller makes over the arguments of the longer sequences
MaxCalls == 3

NoArgs == <<>>

Call(op, args, result) == [op |-> op, args |-> args, result |-> result]

----------------------------------------------------------------------------
(* One instance, queried by one caller: each action is one whole call,     *)
(* the `limit`-th at most.                                                 *)

Init ==
    /\ core_questions = define_core_questions
    /\ demographic_questions = define_demographic_questions
    /\ supplementary_questions = define_supplementary_questions
    /\ historical_questions = define_historical_questions
    /\ history = <<>>
    /\ hcall = [done |-> FALSE]
    /\ readers = <<>>

\* a bug: all_questions = self.core_questions, so the updates write into the category
GetAllQuestionsAliased(limit) ==
    /\ Len(history) < limit
    /\ history' = Append(history, Call("get_all_questions", NoArgs, get_all_questions(Self)))
    /\ core_questions' = get_all_questions(Self)
    /\ UNCHANGED <<demographic_questions, supplementary_questions, historical_questions,
                   hcall, readers>>

GetAllQuestions(limit) ==
    /\ Len(history) < limit
    /\ history' = Append(history, Call("get_all_questions", NoArgs, get_all_questions(Self)))
    /\ UNCHANGED <<catalogue, hcall, readers>>

GetQuestionsByYear(limit, years) ==
    /\ Len(history) < limit
    /\ \E year \in years :
           history' = Append(history, Call("get_questions_by_year", <<year>>,
                                           get_questions_by_year(Self, year)))
    /\ UNCHANGED <<catalogue, hcall, readers>>

GetLongitudinalQuestions(limit, thresholds) ==
    /\ Len(history) < limit
    /\ \E min_years \in thresholds :
           history' = Append(history, Call("get_longitudinal_questions", <<min_years>>,
                                           get_longitudinal_questions(Self, min_years)))
    /\ UNCHANGED <<catalogue, hcall, readers>>

\* get_longitudinal_questions() with no argument
GetLongitudinalQuestionsDefault(limit) ==
    /\ Len(history) < limit
    /\ history' = Append(history, Call("get_longitudinal_questions", NoArgs,
                                       get_longitudinal_questions(Self, DefaultMinYears)))
    /\ UNCHANGED <<catalogue, hcall, readers>>

GetCoreTrendQuestions(limit) ==
    /\ Len(history) < limit
    /\ history' = Append(history, Call("get_core_trend_questions", NoArgs,
                                       get_core_trend_questions(Self)))
    /\ UNCHANGED <<catalogue, hcall, readers>>

CreateHarmonizedColumnMapping(limit) ==
    /\ Len(history) < limit
    /\ history' = Append(history, Call("create_harmonized_column_mapping", NoArgs,
                                       create_harmonized_column_mapping))
    /\ UNCHANGED <<catalogue, hcall, readers>>

HarmonizeResponseScale(limit, triples) ==
    /\ Len(history) < limit
    /\ \E a \in triples :
           history' = Append(history, Call("harmonize_response_scale", a,
                                           harmonize_response_scale(a[1], a[2], a[3])))
    /\ UNCHANGED <<catalogue, hcall, readers>>

\* short call sequences over the full argument ranges
Next ==
    \/ GetAllQuestions(MaxQueries)
    \/ GetQuestionsByYear(MaxQueries, YearArgs)
    \/ GetLongitudinalQuestions(MaxQueries, MinYearsArgs)
    \/ GetLongitudinalQuestionsDefault(MaxQueries)
    \/ GetCoreTrendQuestions(MaxQueries)
    \/ CreateHarmonizedColumnMapping(MaxQueries)

Spec == Init /\ [][Next]_vars

\* longer call sequences, the utilities included, over few arguments
NextRepeat ==
    \/ GetAllQuestions(MaxCalls)
    \/ GetQuestionsByYear(MaxCalls, RepeatYearArgs)
    \/ GetLongitudinalQuestions(MaxCalls, RepeatMinYearsArgs)
    \/ GetLongitudinalQuestionsDefault(MaxCalls)
    \/ GetCoreTrendQuestions(MaxCalls)
    \/ CreateHarmonizedColumnMapping(MaxCalls)
    \/ HarmonizeResponseScale(MaxCalls, HarmonizeArgs)

SpecRepeat == Init /\ [][NextRepeat]_vars

----------------------------------------------------------------------------
(* Properties of the single-caller specifications Spec and SpecRepeat.     *)

Calls(op) == {i \in DOMAIN history : history[i].op = op}

\* the four categories of the instance, one after the other
CategoryItems ==
    core_questions \o demographic_questions \o supplementary_questions
        \o historical_questions

\* C1: get_questions_by_year(y) returns exactly the entries of get_all_questions()
\* whose years_available contains y, with the same values; for 2020, a year no
\* question is available in, it returns the empty mapping.
QuestionsByYearExact ==
    LET all == get_all_questions(Self)
    IN  \A i \in Calls("get_questions_by_year") :
        LET year == history[i].args[1]
            got == history[i].result
        IN  /\ IsDict(got)
            /\ Keys(got) = {qid \in Keys(all) :
                               year \in Range(Lookup(all, qid).years_available)}
            /\ \A qid \in Keys(got) : Lookup(got, qid) = Lookup(all, qid)
            /\ (year = 2020 => got = <<>>)

\* get_questions_by_year has been called for 2020 and returned nothing, and for
\* 2024 and returned questions
QuestionsByYearWitness ==
    /\ \E i \in Calls("get_questions_by_year") :
           history[i].args[1] = 2020 /\ history[i].result = <<>>
    /\ \E i \in Calls("get_questions_by_year") :
           history[i].args[1] = 2024 /\ "job_title" \in Keys(history[i].result)

\* C2: get_longitudinal_questions(k) returns exactly the entries of
\* get_all_questions() with at least k available years; with no argument k is 2;
\* k <= 1 returns every question; k above every question's number of years
\* returns the empty mapping.
LongitudinalExact ==
    LET all == get_all_questions(Self)
    IN  \A i \in Calls("get_longitudinal_questions") :
        LET k == IF history[i].args = <<>> THEN 2 ELSE history[i].args[1]
            got == history[i].result
        IN  /\ IsDict(got)
            /\ Keys(got) = {qid \in Keys(all) :
                               Len(Lookup(all, qid).years_available) >= k}
            /\ \A qid \in Keys(got) : Lookup(got, qid) = Lookup(all, qid)
            /\ (k <= 1 => DictEq(got, all))
            /\ ((\A qid \in Keys(all) : Len(Lookup(all, qid).years_available) < k)
                    => got = <<>>)

\* the calls with no argument and with k above the largest span have been made:
\* the first returned a proper part of the catalogue, the second nothing
LongitudinalWitness ==
    /\ \E i \in Calls("get_longitudinal_questions") :
           /\ history[i].args = <<>>
           /\ history[i].result # <<>>
           /\ Len(history[i].result) < Len(CategoryItems)
    /\ \E i \in Calls("get_longitudinal_questions") :
           /\ history[i].args # <<>>
           /\ history[i].args[1] > 5
           /\ history[i].result = <<>>

NonCoreThreeYears ==
    {"job_title", "research_area", "publication_history", "organization_type"}

\* C3: get_core_trend_questions() returns exactly the core entries with at least
\* 3 available years and no entry of another category; job_title, research_area,
\* publication_history and organization_type are absent from it and present in
\* get_longitudinal_questions(3).
CoreTrendOnlyCore ==
    \A i \in Calls("get_core_trend_questions") :
        LET got == history[i].result
        IN  /\ IsDict(got)
            /\ Keys(got) = {qid \in Keys(core_questions) :
                               Len(Lookup(core_questions, qid).years_available) >= 3}
            /\ \A qid \in Keys(got) : Lookup(got, qid) = Lookup(core_questions, qid)
            /\ Keys(got) \cap (Keys(demographic_questions)
                                \cup Keys(supplementary_questions)
                                \cup Keys(historical_questions)) = {}
            /\ NonCoreThreeYears \cap Keys(got) = {}
            /\ \A j \in Calls("get_longitudinal_questions") :
                   history[j].args = <<3>> => NonCoreThreeYears \subseteq Keys(history[j].result)

\* both get_core_trend_questions() and get_longitudinal_questions(3) have returned,
\* the first with core questions only, the second with more
CoreTrendWitness ==
    \E i \in Calls("get_core_trend_questions"), j \in Calls("get_longitudinal_questions") :
        /\ history[j].args = <<3>>
        /\ "open_access_attitude" \in Keys(history[i].result)
        /\ Len(history[j].result) > Len(history[i].result)

\* C5: create_harmonized_column_mapping() has exactly one entry per question of
\* the four categories, keyed by question_id, whose value is that question's
\* column_mappings; the entry of open_access_attitude is
\* {2021: Q2.7_1, 2022: Q2.11_1, 2023: Q2.10.a, 2024: Q12_1}.
ColumnMappingProjection ==
    LET items == CategoryItems
    IN  \A i \in Calls("create_harmonized_column_mapping") :
        LET got == history[i].result
        IN  /\ IsDict(got)
            /\ Len(got) = Len(items)
            /\ Keys(got) = {items[n].value.question_id : n \in DOMAIN items}
            /\ \A n \in DOMAIN items :
                   Lookup(got, items[n].value.question_id) = items[n].value.column_mappings
            /\ DictEq(Lookup(got, "open_access_attitude"),
                      <<Item(2021, "Q2.7_1"), Item(2022, "Q2.11_1"),
                        Item(2023, "Q2.10.a"), Item(2024, "Q12_1")>>)

\* create_harmonized_column_mapping() has returned a mapping that holds questions
\* of the first and of the last category
ColumnMappingWitness ==
    \E i \in Calls("create_harmonized_column_mapping") :
        /\ "open_access_attitude" \in Keys(history[i].result)
        /\ "data_ownership_after_pub" \in Keys(history[i].result)

\* C6: in every QuestionMapping of the four categories the keys of
\* column_mappings are exactly the years of years_available.
ColumnKeysAreYears ==
    LET items == CategoryItems
    IN  \A n \in DOMAIN items :
            /\ IsDict(items[n].value.column_mappings)
            /\ Keys(items[n].value.column_mappings) = Range(items[n].value.years_available)

\* the instance is built and holds questions of one year and of several years
ColumnKeysWitness ==
    LET items == CategoryItems
    IN  /\ \E n \in DOMAIN items : Cardinality(Keys(items[n].value.column_mappings)) = 1
        /\ \E n \in DOMAIN items : Cardinality(Keys(items[n].value.column_mappings)) = 5
        /\ \A n \in DOMAIN items : items[n].value.years_available # <<>>

\* C7: no question_id occurs twice in the four categories together, and
\* get_all_questions() has as many entries as the four categories together.
QuestionIdsUnique ==
    LET items == CategoryItems
        ids == [i \in DOMAIN items |-> items[i].value.question_id]
    IN  /\ \A i, j \in DOMAIN ids : ids[i] = ids[j] => i = j
        /\ \A i \in DOMAIN items : items[i].key = ids[i]
        /\ Len(get_all_questions(Self)) = Len(items)
        /\ \A i \in Calls("get_all_questions") :
               Len(history[i].result) = Len(items)

\* get_all_questions() has returned the questions of all four non-empty categories
QuestionIdsWitness ==
    /\ \A c \in {core_questions, demographic_questions, supplementary_questions,
                  historical_questions} : c # <<>>
    /\ \E i \in Calls("get_all_questions") :
           \A it \in Range(CategoryItems) : it.key \in Keys(history[i].result)

SameResult(a, b) ==
    IF a.op = "harmonize_response_scale"
    THEN a.result = b.result
    ELSE DictEq(a.result, b.result)

\* C9: two calls of the same operation with the same arguments return equal
\* results, whatever calls are made between them.
Idempotent ==
    \A i, j \in DOMAIN history :
        (history[i].op = history[j].op /\ history[i].args = history[j].args)
            => SameResult(history[i], history[j])

\* get_core_trend_questions() was called, then get_all_questions(), then
\* get_core_trend_questions() again
IdempotentWitness ==
    \E i, j \in Calls("get_core_trend_questions") :
        /\ j > i + 1
        /\ history[i + 1].op = "get_all_questions"
        /\ history[i].result # <<>>

----------------------------------------------------------------------------
(* harmonize_response_scale as a function of its arguments: the arguments  *)
(* are drawn at the start and one action applies the function.             *)

MaxScaleLen == 2

ScaleLabels == {"Yes", "No", "Unsure"}

\* every scale of at most MaxScaleLen labels, a label twice included, and two
\* scales of ResponseScale
Scales ==
    UNION {[1..n -> ScaleLabels] : n \in 0..MaxScaleLen} \cup {AGREEMENT_5, FREQUENCY_4}

Responses == ScaleLabels \cup {"Strongly agree", "Rarely", "Unknown"}

InitHarmonize ==
    /\ core_questions = define_core_questions
    /\ demographic_questions = define_demographic_questions
    /\ supplementary_questions = define_supplementary_questions
    /\ historical_questions = define_historical_questions
    /\ history = <<>>
    /\ readers = <<>>
    /\ \E response \in Responses, source_scale \in Scales, target_scale \in Scales :
           hcall = [done |-> FALSE, response |-> response,
                    source_scale |-> source_scale, target_scale |-> target_scale]

Harmonize ==
    /\ ~hcall.done
    /\ hcall' = [done |-> TRUE, response |-> hcall.response,
                 source_scale |-> hcall.source_scale, target_scale |-> hcall.target_scale,
                 returned |-> harmonize_response_scale(hcall.response, hcall.source_scale,
                                                       hcall.target_scale)]
    /\ UNCHANGED <<catalogue, history, readers>>

NextHarmonize == Harmonize

SpecHarmonize == InitHarmonize /\ [][NextHarmonize]_vars

\* C4: harmonize_response_scale(r, S, T) returns the label of T at the position of
\* the first occurrence of r in S when r is in S and T has that position, and r
\* unchanged otherwise; ("Strongly agree", AGREEMENT_5, FREQUENCY_4) returns
\* "Strongly agree" and ("Unknown", AGREEMENT_5, FREQUENCY_4) returns "Unknown".
HarmonizePositional ==
    hcall.done =>
        LET r == hcall.response
            S == hcall.source_scale
            T == hcall.target_scale
            occurrences == {i \in DOMAIN S : S[i] = r}
            first == CHOOSE i \in occurrences : \A j \in occurrences : i <= j
        IN  /\ IF occurrences # {} /\ first <= Len(T)
               THEN hcall.returned = T[first]
               ELSE hcall.returned = r
            /\ (r = "Strongly agree" /\ S = AGREEMENT_5 /\ T = FREQUENCY_4
                    => hcall.returned = "Strongly agree")
            /\ (r = "Unknown" /\ S = AGREEMENT_5 /\ T = FREQUENCY_4
                    => hcall.returned = "Unknown")

\* the call ("Strongly agree", AGREEMENT_5, FREQUENCY_4) has returned its response
HarmonizeWitness ==
    /\ hcall.done
    /\ hcall.response = "Strongly agree"
    /\ hcall.source_scale = AGREEMENT_5
    /\ hcall.target_scale = FREQUENCY_4
    /\ hcall.returned = hcall.response

----------------------------------------------------------------------------
(* get_all_questions as a function of the four categories: the categories  *)
(* are drawn at the start, each a dict of at most MaxCategorySize          *)
(* questions, so that a question_id may be in several of them.             *)

MaxCategorySize == 2

MergeIds == {"job_title", "research_area"}

MergeNotes == {"first wording", "second wording"}

MergeQuestion(question_id, notes) ==
    QuestionMapping(question_id, "Which of the following best applies to you?",
                    "multiple_choice", YES_NO_UNSURE, <<2017>>, <<Item(2017, "Q1")>>, notes)

\* the dicts of at most MaxCategorySize questions, in every insertion order
MergeCategories ==
    LET items == {Item(qid, MergeQuestion(qid, notes)) : qid \in MergeIds, notes \in MergeNotes}
    IN  {d \in UNION {[1..n -> items] : n \in 0..MaxCategorySize} : IsDict(d)}

InitMerge ==
    /\ core_questions \in MergeCategories
    /\ demographic_questions \in MergeCategories
    /\ supplementary_questions \in MergeCategories
    /\ historical_questions \in MergeCategories
    /\ history = <<>>
    /\ hcall = [done |-> FALSE]
    /\ readers = <<>>

NextMerge == GetAllQuestions(MaxQueries)

SpecMerge == InitMerge /\ [][NextMerge]_vars

\* C8: get_all_questions() holds every identifier of every category, and an
\* identifier maps to the definition of the last category, in the order core,
\* demographic, supplementary, historical, that contains it.
MergeLastWins ==
    \A i \in Calls("get_all_questions") :
        LET got == history[i].result
        IN  /\ IsDict(got)
            /\ Keys(got) = Keys(core_questions) \cup Keys(demographic_questions)
                               \cup Keys(supplementary_questions)
                               \cup Keys(historical_questions)
            /\ \A qid \in Keys(got) :
                   Lookup(got, qid) =
                       IF qid \in Keys(historical_questions)
                           THEN Lookup(historical_questions, qid)
                       ELSE IF qid \in Keys(supplementary_questions)
                           THEN Lookup(supplementary_questions, qid)
                       ELSE IF qid \in Keys(demographic_questions)
                           THEN Lookup(demographic_questions, qid)
                       ELSE Lookup(core_questions, qid)

\* get_all_questions() has returned for categories of which two define the same
\* identifier differently, and the result holds the later definition
MergeWitness ==
    \E i \in Calls("get_all_questions") :
        \E qid \in Keys(core_questions) \cap Keys(supplementary_questions) :
            /\ qid \notin Keys(historical_questions)
            /\ Lookup(core_questions, qid) # Lookup(supplementary_questions, qid)
            /\ Lookup(history[i].result, qid) = Lookup(supplementary_questions, qid)

----------------------------------------------------------------------------
(* Concurrent readers of one shared instance.  A call is a sequence of     *)
(* steps, one per statement that reads the instance, and the steps of the  *)
(* readers interleave.                                                     *)

NumReaders == 2

Readers == 1..NumReaders

ReaderCalls ==
    {<<"get_all_questions", NoArgs>>,
     <<"get_longitudinal_questions", NoArgs>>,
     <<"get_core_trend_questions", NoArgs>>,
     <<"create_harmonized_column_mapping", NoArgs>>}
        \cup {<<"get_questions_by_year", <<year>>>> : year \in RepeatYearArgs}
        \cup {<<"get_longitudinal_questions", <<k>>>> : k \in RepeatMinYearsArgs}

Idle == [pc |-> "idle"]

\* the instance a reader's call reads: create_harmonized_column_mapping builds
\* its own, the methods read the shared one
SchemaOf(t) ==
    IF readers[t].op = "create_harmonized_column_mapping" THEN UnifiedSchema ELSE Self

At(t, pc) == readers[t].pc = pc

Goto(t, pc, all_questions) ==
    readers' = [readers EXCEPT ![t] = [pc |-> pc, op |-> readers[t].op,
                                       args |-> readers[t].args,
                                       all_questions |-> all_questions]]

InitReaders ==
    /\ core_questions = define_core_questions
    /\ demographic_questions = define_demographic_questions
    /\ supplementary_questions = define_supplementary_questions
    /\ historical_questions = define_historical_questions
    /\ history = <<>>
    /\ hcall = [done |-> FALSE]
    /\ readers = [t \in Readers |-> Idle]

\* the call is entered: all_questions = {} (get_core_trend_questions has none)
Enter(t) ==
    /\ At(t, "idle")
    /\ \E c \in ReaderCalls :
           readers' = [readers EXCEPT ![t] =
                          [pc |-> IF c[1] = "get_core_trend_questions"
                                  THEN "return" ELSE "update_core",
                           op |-> c[1], args |-> c[2], all_questions |-> <<>>]]
    /\ UNCHANGED <<catalogue, history, hcall>>

UpdateCore(t) ==
    /\ At(t, "update_core")
    /\ Goto(t, "update_demographic",
            Update(readers[t].all_questions, SchemaOf(t).core_questions))
    /\ UNCHANGED <<catalogue, history, hcall>>

\* a bug: all_questions is self.core_questions itself, not a new dict, so the
\* update writes into the category
UpdateDemographicAliased(t) ==
    /\ At(t, "update_demographic")
    /\ Goto(t, "update_supplementary",
            Update(readers[t].all_questions, SchemaOf(t).demographic_questions))
    /\ core_questions' =
           IF readers[t].op = "create_harmonized_column_mapping"
           THEN core_questions
           ELSE Update(readers[t].all_questions, demographic_questions)
    /\ UNCHANGED <<demographic_questions, supplementary_questions, historical_questions,
                   history, hcall>>

UpdateDemographic(t) ==
    /\ At(t, "update_demographic")
    /\ Goto(t, "update_supplementary",
            Update(readers[t].all_questions, SchemaOf(t).demographic_questions))
    /\ UNCHANGED <<catalogue, history, hcall>>

UpdateSupplementary(t) ==
    /\ At(t, "update_supplementary")
    /\ Goto(t, "update_historical",
            Update(readers[t].all_questions, SchemaOf(t).supplementary_questions))
    /\ UNCHANGED <<catalogue, history, hcall>>

UpdateHistorical(t) ==
    /\ At(t, "update_historical")
    /\ Goto(t, "return",
            Update(readers[t].all_questions, SchemaOf(t).historical_questions))
    /\ UNCHANGED <<catalogue, history, hcall>>

\* the return statement of the call: the merged dict, a comprehension over it
\* (over self.core_questions in get_core_trend_questions), or its projection
Return(t) ==
    /\ At(t, "return")
    /\ LET op == readers[t].op
           args == readers[t].args
           all_questions == readers[t].all_questions
           result ==
               CASE op = "get_all_questions" -> all_questions
                 [] op = "get_questions_by_year" -> YearFilter(all_questions, args[1])
                 [] op = "get_longitudinal_questions" ->
                        SpanFilter(all_questions,
                                   IF args = NoArgs THEN DefaultMinYears ELSE args[1])
                 [] op = "get_core_trend_questions" ->
                        SpanFilter(core_questions, CoreTrendMinYears)
                 [] op = "create_harmonized_column_mapping" ->
                        ProjectColumns(<<>>, all_questions)
       IN  readers' = [readers EXCEPT ![t] = [pc |-> "done", op |-> op, args |-> args,
                                              result |-> result]]
    /\ UNCHANGED <<catalogue, history, hcall>>

\* the caller has the result and is free to call again
Leave(t) ==
    /\ At(t, "done")
    /\ readers' = [readers EXCEPT ![t] = Idle]
    /\ UNCHANGED <<catalogue, history, hcall>>

NextReaders ==
    \E t \in Readers :
        \/ Enter(t)
        \/ UpdateCore(t)
        \/ UpdateDemographic(t)
        \/ UpdateSupplementary(t)
        \/ UpdateHistorical(t)
        \/ Return(t)
        \/ Leave(t)

SpecReaders == InitReaders /\ [][NextReaders]_vars

\* what the call returns when it runs alone on an instance fresh from __init__
Alone(op, args) ==
    CASE op = "get_all_questions" -> get_all_questions(UnifiedSchema)
      [] op = "get_questions_by_year" -> get_questions_by_year(UnifiedSchema, args[1])
      [] op = "get_longitudinal_questions" ->
             get_longitudinal_questions(UnifiedSchema,
                                        IF args = NoArgs THEN DefaultMinYears ELSE args[1])
      [] op = "get_core_trend_questions" -> get_core_trend_questions(UnifiedSchema)
      [] op = "create_harmonized_column_mapping" -> create_harmonized_column_mapping

\* C10: whatever calls the readers make and however their steps interleave, the
\* four categories stay as __init__ built them, and every call returns what it
\* returns when run alone.
CatalogueNeverMutated ==
    /\ core_questions = define_core_questions
    /\ demographic_questions = define_demographic_questions
    /\ supplementary_questions = define_supplementary_questions
    /\ historical_questions = define_historical_questions
    /\ \A t \in Readers :
           At(t, "done") => readers[t].result = Alone(readers[t].op, readers[t].args)

\* one reader has returned from get_core_trend_questions while another is in the
\* middle of the merge of get_all_questions
CatalogueWitness ==
    \E t, u \in Readers :
        /\ At(t, "done")
        /\ readers[t].op = "get_core_trend_questions"
        /\ readers[t].result # <<>>
        /\ At(u, "update_supplementary")
        /\ readers[u].op = "get_all_questions"

=============================================================================
